---- MODULE Spec2Model ----
(***************************************************************************)
(* Model of the prefetch volume decoder (artemis-core, prefetch/volume.rs), *)
(* of the BITS assembler (core, bits/background.rs) and of the shimdb ops  *)
(* of the script runtime (artemis-core, runtime/windows/shimdb.rs).        *)
(*                                                                         *)
(* A byte buffer is a sequence of 0..255.  A slice `&data[p..]` is the     *)
(* pair (data, p): p bytes of the buffer have been consumed.  A u32 read   *)
(* from the buffer is kept as two 16-bit halves [hi, lo], so that every    *)
(* 32-bit value is representable and `x * 2` keeps its width.              *)
(***************************************************************************)
EXTENDS Integers, Sequences, FiniteSets, TLC

VARIABLES
    data,             \* parse_volume: the buffer `data: &[u8]`
    volume_offset,    \* parse_volume: argument
    number_volumes,   \* parse_volume: argument
    version,          \* parse_volume: argument
    overflow_checks,  \* build profile: TRUE = arithmetic overflow panics, FALSE = it wraps
    pc,               \* position in parse_volume: "start", "loop", "done"
    count,            \* parse_volume: loop counter
    volume_start,     \* parse_volume: the record-set base (a position in data)
    volume_data,      \* parse_volume: the sequential cursor (a position in data)
    volume_vec,       \* parse_volume: records collected so far
    stop,             \* why parse_volume left the loop
    result,           \* what parse_volume returned
    gd_data,          \* get_directories called on its own: the buffer
    gd_offset,        \* get_directories: argument `offset`
    gd_entries,       \* get_directories: argument `entries`
    gd_pc,            \* "idle", "start", "done"
    gd_result,        \* what get_directories returned
    bits_call,        \* the BITS entry point called: "ese", "legacy", "carve" or "none"
    ese_results,      \* what grab_ese_tables returns for the database
    users_result,     \* what get_users returns
    carve,            \* argument `carve`
    is_legacy,        \* argument `is_legacy` of a direct parse_carve call
    disk,             \* the files: is_file, whether a raw read succeeds, content
    bits_pc,          \* position in the entry point called
    windows_bits,     \* parse_legacy_bits: the collection being filled
    bits_result,      \* what parse_ese_bits or parse_legacy_bits returned
    carve_result,     \* what parse_carve returned
    io_log,           \* the raw reads and scans of the call, in order
    shim_call,        \* the shimdb op called: "shimdb", "alt", "custom" or "none"
    shim_arg,         \* its String argument (drive or paths), a sequence of chars
    shim_parse,       \* what grab_shimdb or custom_shimdb_path returns
    shim_serialize,   \* whether serde_json::to_string succeeds
    shim_pc,          \* "idle", "start", "done"
    shim_asked,       \* whether the parser was called, and with what
    shim_result       \* what the op returned

volVars == <<data, volume_offset, number_volumes, version, overflow_checks,
             pc, count, volume_start, volume_data, volume_vec, stop, result>>

gdVars == <<gd_data, gd_offset, gd_entries, gd_pc, gd_result>>

bitsVars == <<bits_call, ese_results, users_result, carve, is_legacy, disk,
              bits_pc, windows_bits, bits_result, carve_result, io_log>>

shimVars == <<shim_call, shim_arg, shim_parse, shim_serialize, shim_pc,
              shim_asked, shim_result>>

vars == <<volVars, gdVars, bitsVars, shimVars>>

-----------------------------------------------------------------------------
(* Program constants *)

Version30 == 30
Version26 == 26
Version23 == 23
UnknownSize30 == 60
UnknownSize26 == 68
Utf16Adjust == 2
SizeOfU16 == 2

\* widths of the eight header fields read at volume.rs:42-50
HeaderLayout == <<4, 4, 8, 4, 4, 4, 4, 4>>

HeaderSize == 4 + 4 + 8 + 4 + 4 + 4 + 4 + 4

Pow16 == 256 * 256

-----------------------------------------------------------------------------
(* Fixed-width integers *)

Min(a, b) == IF a < b THEN a ELSE b

U32Of(n) == [hi |-> n \div Pow16, lo |-> n % Pow16]

\* count < entries, count a small counter, entries a u32
U32Less(n, v) == v.hi > 0 \/ n < v.lo

\* u16 * 2 in u16 arithmetic: a panic with overflow checks, a wrap without
MulU16(size, adjust, checks) ==
    LET product == size * adjust
    IN  [panic |-> product >= Pow16 /\ checks, val |-> product % Pow16]

\* u32 * 2 in u32 arithmetic, on the two halves
MulU32(v, adjust, checks) ==
    LET lo2 == v.lo * adjust
        hi2 == v.hi * adjust + (lo2 \div Pow16)
    IN  [panic |-> hi2 >= Pow16 /\ checks,
         val |-> [hi |-> hi2 % Pow16, lo |-> lo2 % Pow16]]

-----------------------------------------------------------------------------
(* Byte cursor *)

NoBytes == <<>>

\* nom::bytes::complete::take(n) on the slice (d, p), n a usize
take(d, p, n) ==
    IF n <= Len(d) - p
    THEN [ok |-> TRUE, pos |-> p + n, out |-> SubSeq(d, p + 1, p + n)]
    ELSE [ok |-> FALSE, pos |-> p, out |-> NoBytes]

\* take(n) with n a u32: a buffer of the model is shorter than 2^16 bytes, so
\* a count with a non-zero high half never fits
take32(d, p, v) ==
    IF v.hi = 0 THEN take(d, p, v.lo)
    ELSE [ok |-> FALSE, pos |-> p, out |-> NoBytes]

LeU16(b) == b[1] + 256 * b[2]
LeU32(b) == [hi |-> b[3] + 256 * b[4], lo |-> b[1] + 256 * b[2]]

nom_unsigned_two_bytes(d, p) ==
    LET r == take(d, p, 2)
    IN  [ok |-> r.ok, pos |-> r.pos, val |-> IF r.ok THEN LeU16(r.out) ELSE 0]

\* the header fields, read one after the other; the first short read fails
RECURSIVE ReadFields(_, _, _, _)
ReadFields(d, p, layout, acc) ==
    IF layout = <<>> THEN [ok |-> TRUE, pos |-> p, out |-> acc]
    ELSE LET r == take(d, p, Head(layout))
         IN  IF ~r.ok THEN [ok |-> FALSE, pos |-> p, out |-> acc]
             ELSE ReadFields(d, r.pos, Tail(layout), Append(acc, r.out))

\* UTF-16 little-endian bytes to a string, as its sequence of code units
RECURSIVE extract_utf16_string(_)
extract_utf16_string(b) ==
    IF Len(b) < 2 THEN <<>>
    ELSE <<LeU16(b)>> \o extract_utf16_string(SubSeq(b, 3, Len(b)))

-----------------------------------------------------------------------------
(* Volume::get_directories *)

\* faulty variant: a failed read ends the table and keeps the strings read so far
DirFailKeep(kind, p, directories) ==
    [kind |-> IF kind = "Err" THEN "Ok" ELSE kind, pos |-> p, dirs |-> directories]

\* what `?` returns from get_directories on a failed read: the error alone
DirFail(kind, p, directories) == [kind |-> kind, pos |-> p, dirs |-> <<>>]

RECURSIVE DirectoryLoop(_, _, _, _, _, _)
DirectoryLoop(d, directory_start, n, entries, directories, checks) ==
    IF ~U32Less(n, entries)
    THEN [kind |-> "Ok", pos |-> directory_start, dirs |-> directories]
    ELSE LET size == nom_unsigned_two_bytes(d, directory_start)
             bytes == MulU16(size.val, Utf16Adjust, checks)
             path == take(d, size.pos, bytes.val)
             term == take(d, path.pos, SizeOfU16)
         IN  IF ~size.ok THEN DirFail("Err", directory_start, directories)
             ELSE IF bytes.panic THEN DirFail("Panic", directory_start, directories)
             ELSE IF ~path.ok THEN DirFail("Err", directory_start, directories)
             ELSE IF ~term.ok THEN DirFail("Err", directory_start, directories)
             ELSE DirectoryLoop(d, term.pos, n + 1, entries,
                                Append(directories, extract_utf16_string(path.out)),
                                checks)

get_directories(d, p, offset, entries, checks) ==
    LET start == take32(d, p, offset)
    IN  IF ~start.ok THEN DirFail("Err", p, <<>>)
        ELSE DirectoryLoop(d, start.pos, 0, entries, <<>>, checks)

-----------------------------------------------------------------------------
(* Volume::parse_volume, one record: the loop body up to the push *)

NoVolume == [volume_path_offset |-> U32Of(0), volume_number_chars |-> U32Of(0),
             volume_path |-> <<>>, volume_creation |-> <<>>,
             volume_serial |-> U32Of(0), file_ref_offset |-> U32Of(0),
             file_ref_data_size |-> U32Of(0),
             directory_strings_offset |-> U32Of(0),
             number_directory_strings |-> U32Of(0), directories |-> <<>>]

EntryFail(kind) == [kind |-> kind, input |-> 0, volume |-> NoVolume]

\* path_base and dir_base are the positions the two offsets are applied to
VolumeEntry(d, path_base, dir_base, p, checks) ==
    LET h == ReadFields(d, p, HeaderLayout, <<>>)
        volume_path_offset == LeU32(h.out[1])
        volume_number_chars == LeU32(h.out[2])
        directory_strings_offset == LeU32(h.out[7])
        number_directory_strings == LeU32(h.out[8])
        volume_path_start == take32(d, path_base, volume_path_offset)
        bytes == MulU32(volume_number_chars, Utf16Adjust, checks)
        volume_path_data == take32(d, volume_path_start.pos, bytes.val)
        dirs == get_directories(d, dir_base, directory_strings_offset,
                                number_directory_strings, checks)
    IN  IF ~h.ok THEN EntryFail("Err")
        ELSE IF ~volume_path_start.ok THEN EntryFail("Err")
        ELSE IF bytes.panic THEN EntryFail("Panic")
        ELSE IF ~volume_path_data.ok THEN EntryFail("Err")
        ELSE IF dirs.kind # "Ok" THEN EntryFail(dirs.kind)
        ELSE [kind |-> "Ok", input |-> h.pos,
              volume |-> [volume_path_offset |-> volume_path_offset,
                          volume_number_chars |-> volume_number_chars,
                          volume_path |-> extract_utf16_string(volume_path_data.out),
                          volume_creation |-> h.out[3],
                          volume_serial |-> LeU32(h.out[4]),
                          file_ref_offset |-> LeU32(h.out[5]),
                          file_ref_data_size |-> LeU32(h.out[6]),
                          directory_strings_offset |-> directory_strings_offset,
                          number_directory_strings |-> number_directory_strings,
                          directories |-> dirs.dirs]]

\* faulty variant: both offsets are applied to the start of the buffer
ParseEntryAbsolute(d, start, p, checks) == VolumeEntry(d, 0, 0, p, checks)

\* both offsets are applied to volume_start, whatever the record
ParseEntry(d, start, p, checks) == VolumeEntry(d, start, start, p, checks)

Supported(v) == v \in {Version30, Version26, Version23}

\* faulty variant: a trailer cut short by the end of the buffer is accepted
SkipUnknownShort(d, input, size) ==
    LET r == take(d, input, Min(size, Len(d) - input))
    IN  [kind |-> IF r.ok THEN "Next" ELSE "Err", pos |-> r.pos]

\* volume.rs:81-92: skip the version's trailer after the header, or break
SkipUnknown(d, input, size) ==
    LET r == take(d, input, size)
    IN  [kind |-> IF r.ok THEN "Next" ELSE "Err", pos |-> r.pos]

\* faulty variant: an unsupported version is an error
TrailerStrict(d, input, v) ==
    IF Version30 = v THEN SkipUnknown(d, input, UnknownSize30)
    ELSE IF Version26 = v \/ Version23 = v THEN SkipUnknown(d, input, UnknownSize26)
    ELSE [kind |-> "Err", pos |-> input]

\* faulty variant: the two trailer sizes are exchanged
TrailerSwapped(d, input, v) ==
    IF Version30 = v THEN SkipUnknown(d, input, UnknownSize26)
    ELSE IF Version26 = v \/ Version23 = v THEN SkipUnknown(d, input, UnknownSize30)
    ELSE [kind |-> "Break", pos |-> input]

Trailer(d, input, v) ==
    IF Version30 = v THEN SkipUnknown(d, input, UnknownSize30)
    ELSE IF Version26 = v \/ Version23 = v THEN SkipUnknown(d, input, UnknownSize26)
    ELSE [kind |-> "Break", pos |-> input]

\* faulty variant: a failed read ends the loop and the records collected are returned
PropagateKeep(kind, vec) ==
    [kind |-> IF kind = "Err" THEN "Ok" ELSE kind, remaining |-> 0, volumes |-> vec]

\* what `?` returns from parse_volume on a failed read: the error, and nothing else
Propagate(kind, vec) == [kind |-> kind, remaining |-> 0, volumes |-> <<>>]

Success(p, vec) == [kind |-> "Ok", remaining |-> p, volumes |-> vec]

NoResult == [kind |-> "None", remaining |-> 0, volumes |-> <<>>]

\* faulty variant: the loop runs once more
LoopCondLe(n, number) == n <= number

\* volume.rs:41: while &count < number_volumes
LoopCond(n, number) == n < number

\* volume.rs:41-95: the loop, from the cursor `input` with n records in vec
RECURSIVE RecordLoop(_, _, _, _, _, _, _, _)
RecordLoop(d, start, input, n, number, v, vec, checks) ==
    IF ~LoopCond(n, number) THEN Success(input, vec)
    ELSE LET e == ParseEntry(d, start, input, checks)
             pushed == Append(vec, e.volume)
             skip == Trailer(d, e.input, v)
         IN  IF e.kind # "Ok" THEN Propagate(e.kind, vec)
             ELSE IF skip.kind = "Break" THEN Success(input, pushed)
             ELSE IF skip.kind = "Err" THEN Propagate("Err", pushed)
             ELSE RecordLoop(d, start, skip.pos, n + 1, number, v, pushed, checks)

\* volume.rs:30-96: the whole call
parse_volume(d, offset, number, v, checks) ==
    LET r == take(d, 0, offset)
    IN  IF ~r.ok THEN Propagate("Err", <<>>)
        ELSE RecordLoop(d, r.pos, r.pos, 0, number, v, <<>>, checks)

-----------------------------------------------------------------------------
(* Input buffers: record sets laid out as in the test fixture (headers and   *)
(* trailers first, then the strings), cut at several lengths                 *)

MaxVolumes == 2
PadLen == 4
\* a record count far larger than any buffer of the model holds
ManyVolumes == 1000

U32Bytes(v) == <<v.lo % 256, v.lo \div 256, v.hi % 256, v.hi \div 256>>

Fill(n, b) == [i \in 1..n |-> b]

\* "AB", then a directory table: "C", "DE", and an entry of 32768 characters
TailBytes == <<65, 0, 66, 0,
               1, 0, 67, 0, 0, 0,
               2, 0, 68, 0, 69, 0, 0, 0,
               0, 128, 0, 0>>

\* header shapes: path offset, path characters, directory offset and count;
\* t is where the strings start, relative to the record-set base
Templates(t) == <<
    [po |-> U32Of(t),     pn |-> U32Of(2), do |-> U32Of(t + 4),  dn |-> U32Of(2)],
    [po |-> U32Of(t + 2), pn |-> U32Of(1), do |-> U32Of(t + 10), dn |-> U32Of(1)],
    [po |-> U32Of(0),     pn |-> U32Of(0), do |-> U32Of(HeaderSize),     dn |-> U32Of(3)],
    [po |-> U32Of(t),     pn |-> [hi |-> 32768, lo |-> 1], do |-> U32Of(t + 4), dn |-> U32Of(0)],
    [po |-> U32Of(t),     pn |-> U32Of(1), do |-> U32Of(t + 4),  dn |-> U32Of(3)],
    [po |-> [hi |-> 1, lo |-> 0], pn |-> U32Of(1), do |-> U32Of(t + 4), dn |-> U32Of(1)],
    [po |-> U32Of(0),     pn |-> U32Of(1), do |-> U32Of(HeaderSize),     dn |-> U32Of(0)] >>

TemplateIds == 1..Len(Templates(0))

LayoutSize(v) == IF v = Version26 \/ v = Version23 THEN UnknownSize26 ELSE UnknownSize30

HeaderBytes(tp, i) ==
    U32Bytes(tp.po) \o U32Bytes(tp.pn) \o <<i, 0, 0, 0, 0, 0, 0, 1>>
    \o U32Bytes(U32Of(256 + i)) \o Fill(8, 0) \o U32Bytes(tp.do) \o U32Bytes(tp.dn)

RECURSIVE Records(_, _, _, _)
Records(i, ids, t, v) ==
    IF i > Len(ids) THEN <<>>
    ELSE HeaderBytes(Templates(t)[ids[i]], i) \o Fill(LayoutSize(v), 0)
         \o Records(i + 1, ids, t, v)

StringsStart(v) == MaxVolumes * (HeaderSize + LayoutSize(v))

Fixture(pad, ids, v, cut) ==
    LET full == Fill(pad, 238) \o Records(1, ids, StringsStart(v), v) \o TailBytes
    IN  SubSeq(full, 1, Len(full) - cut)

Cuts(v) == {0, 2, Len(TailBytes), Len(TailBytes) + 1,
            Len(TailBytes) + LayoutSize(v) + 1}

Versions == {Version23, Version26, Version30, 17}

\* the smallest u16 character count whose byte length does not fit in a u16
LongChars == Pow16 \div 2

\* one record whose single directory entry has LongChars characters, all of
\* them and the terminator inside the buffer
LongDirectoryBuffer ==
    HeaderBytes([po |-> U32Of(0), pn |-> U32Of(0),
                 do |-> U32Of(HeaderSize), dn |-> U32Of(1)], 1)
    \o <<LongChars % 256, LongChars \div 256>> \o Fill(2 * LongChars, 0) \o <<0, 0>>

BeyondOffset == PadLen + StringsStart(Version26) + Len(TailBytes) + 1

InitVolume ==
    /\ version \in Versions
    /\ number_volumes \in (0..MaxVolumes) \cup {ManyVolumes}
    /\ volume_offset \in {0, PadLen, BeyondOffset}
    /\ \/ \E ids \in [1..MaxVolumes -> TemplateIds], cut \in Cuts(version) :
             /\ volume_offset = BeyondOffset => cut = 0 /\ \A i \in 1..MaxVolumes : ids[i] = 1
             /\ number_volumes = ManyVolumes => \A i \in 1..MaxVolumes : ids[i] = 1
             /\ data = Fixture(IF volume_offset = PadLen THEN PadLen ELSE 0, ids, version, cut)
       \/ /\ volume_offset = 0 /\ number_volumes = 1
          /\ data = LongDirectoryBuffer
    /\ pc = "start"
    /\ count = 0
    /\ volume_start = 0
    /\ volume_data = 0
    /\ volume_vec = <<>>
    /\ stop = "none"
    /\ result = NoResult

-----------------------------------------------------------------------------
(* Volume::parse_volume *)

\* volume.rs:36-39: take(volume_offset)(data)?
PV_Start ==
    /\ pc = "start"
    /\ LET r == take(data, 0, volume_offset)
       IN  IF r.ok
           THEN /\ volume_data' = r.pos
                /\ volume_start' = r.pos
                /\ pc' = "loop"
                /\ UNCHANGED <<stop, result>>
           ELSE /\ pc' = "done"
                /\ stop' = "read"
                /\ result' = Propagate("Err", volume_vec)
                /\ UNCHANGED <<volume_data, volume_start>>
    /\ UNCHANGED <<data, volume_offset, number_volumes, version, overflow_checks,
                   count, volume_vec>>
    /\ UNCHANGED <<gdVars, bitsVars, shimVars>>

\* volume.rs:41-93: one iteration of the while loop
PV_Record ==
    /\ pc = "loop"
    /\ LoopCond(count, number_volumes)
    /\ LET e == ParseEntry(data, volume_start, volume_data, overflow_checks)
           pushed == Append(volume_vec, e.volume)
           skip == Trailer(data, e.input, version)
       IN  IF e.kind # "Ok"
           THEN /\ pc' = "done"
                /\ stop' = IF e.kind = "Panic" THEN "overflow" ELSE "read"
                /\ result' = Propagate(e.kind, volume_vec)
                /\ UNCHANGED <<count, volume_vec, volume_data>>
           ELSE IF skip.kind = "Break"
           THEN /\ volume_vec' = pushed
                /\ count' = count + 1
                /\ pc' = "done"
                /\ stop' = "version"
                /\ result' = Success(volume_data, pushed)
                /\ UNCHANGED volume_data
           ELSE IF skip.kind = "Err"
           THEN /\ volume_vec' = pushed
                /\ count' = count + 1
                /\ pc' = "done"
                /\ stop' = "read"
                /\ result' = Propagate("Err", pushed)
                /\ UNCHANGED volume_data
           ELSE /\ volume_vec' = pushed
                /\ count' = count + 1
                /\ volume_data' = skip.pos
                /\ UNCHANGED <<pc, stop, result>>
    /\ UNCHANGED <<data, volume_offset, number_volumes, version, overflow_checks,
                   volume_start>>
    /\ UNCHANGED <<gdVars, bitsVars, shimVars>>

\* volume.rs:41,95: the loop condition fails and the function returns
PV_Return ==
    /\ pc = "loop"
    /\ ~LoopCond(count, number_volumes)
    /\ pc' = "done"
    /\ stop' = "count"
    /\ result' = Success(volume_data, volume_vec)
    /\ UNCHANGED <<data, volume_offset, number_volumes, version, overflow_checks,
                   count, volume_start, volume_data, volume_vec>>
    /\ UNCHANGED <<gdVars, bitsVars, shimVars>>

-----------------------------------------------------------------------------
(* Volume::get_directories called on its own, as test_get_directories does *)

MaxEntries == 2
GdPad == 3

\* one directory entry: the count c, c characters, then a terminator; the
\* last shape claims 32768 characters and holds none
EntryShapes == {<<0, 0>>, <<1, 0, 67, 0>>, <<2, 0, 68, 0, 69, 0>>, <<0, 128>>}
Terminators == {<<0, 0>>, <<7, 9>>}
Entries == {e \o t : e \in EntryShapes, t \in Terminators}

RECURSIVE Flatten(_)
Flatten(ss) == IF ss = <<>> THEN <<>> ELSE Head(ss) \o Flatten(Tail(ss))

Tables == UNION {[1..n -> Entries] : n \in 0..MaxEntries}

GdCuts == {0, 1, 3}

InitDirectories ==
    /\ \E tb \in Tables, pad \in {0, GdPad}, cut \in GdCuts :
          LET full == Fill(pad, 238) \o Flatten(tb)
          IN  /\ gd_data = SubSeq(full, 1, Len(full) - Min(cut, Len(full)))
              /\ gd_offset \in {U32Of(pad), U32Of(Len(full) + 1), [hi |-> 1, lo |-> pad]}
    /\ gd_entries \in {U32Of(n) : n \in 0..(MaxEntries + 1)}
    /\ gd_pc = "start"
    /\ gd_result = DirFail("None", 0, <<>>)

IdleDirectories ==
    /\ gd_data = <<>>
    /\ gd_offset = U32Of(0)
    /\ gd_entries = U32Of(0)
    /\ gd_pc = "idle"
    /\ gd_result = DirFail("None", 0, <<>>)

IdleVolume ==
    /\ data = <<>>
    /\ volume_offset = 0
    /\ number_volumes = 0
    /\ version = Version30
    /\ pc = "idle"
    /\ count = 0
    /\ volume_start = 0
    /\ volume_data = 0
    /\ volume_vec = <<>>
    /\ stop = "none"
    /\ result = NoResult

\* volume.rs:99-117
GD_Call ==
    /\ gd_pc = "start"
    /\ gd_result' = get_directories(gd_data, 0, gd_offset, gd_entries, overflow_checks)
    /\ gd_pc' = "done"
    /\ UNCHANGED <<gd_data, gd_offset, gd_entries>>
    /\ UNCHANGED <<volVars, bitsVars, shimVars>>

-----------------------------------------------------------------------------
(* BITS: records and collaborators (bits/background.rs)                      *)
(*                                                                           *)
(* A record keeps the fields the join reads and writes; the other fields of  *)
(* BitsInfo are copied from the job or the file in the same way.             *)

MaxJobs == 2
MaxFiles == 2
MaxLegacyJobs == 1

EsePath == "qmgr.db"
Qmgr0 == "qmgr0.dat"
Qmgr1 == "qmgr1.dat"
Paths == {EsePath, Qmgr0, Qmgr1}

EmptyBits == [bits |-> <<>>, carved_jobs |-> <<>>, carved_files |-> <<>>]

BitsOk(w) == [kind |-> "Ok", err |-> "", bits |-> w.bits,
              carved_jobs |-> w.carved_jobs, carved_files |-> w.carved_files]
BitsErr(e) == [kind |-> "Err", err |-> e, bits |-> <<>>,
               carved_jobs |-> <<>>, carved_files |-> <<>>]
NoBitsResult == [kind |-> "None", err |-> "", bits |-> <<>>,
                 carved_jobs |-> <<>>, carved_files |-> <<>>]

\* the cells of a row that hold a file_id: two ids, or a value that does not decode
FileIdCells == {"f1", "f2", "malformed"}
Sid(i) == IF i % 2 = 1 THEN "S-1-5-21-1" ELSE "S-1-5-21-2"

JobRows == UNION {{[i \in 1..n |-> [id |-> <<"job", i>>, file_id |-> c[i], sid |-> Sid(i)]]
                    : c \in [1..n -> FileIdCells]} : n \in 0..MaxJobs}
FileRows == UNION {{[i \in 1..n |-> [file_id |-> c[i], name |-> <<"file", i>>]]
                    : c \in [1..n -> FileIdCells]} : n \in 0..MaxFiles}

Absent == [some |-> FALSE, rows |-> <<>>]
Present(rows) == [some |-> TRUE, rows |-> rows]

\* a cell that does not decode becomes the default, the empty string
CellOrDefault(c) == IF c = "malformed" THEN "" ELSE c

get_jobs(rows) ==
    [i \in 1..Len(rows) |-> [job_id |-> rows[i].id,
                             file_id |-> CellOrDefault(rows[i].file_id),
                             owner_sid |-> rows[i].sid]]

get_files(rows) ==
    [i \in 1..Len(rows) |-> [file_id |-> CellOrDefault(rows[i].file_id),
                             filename |-> rows[i].name]]

\* raw file content: the live legacy jobs it holds, and what a scan for
\* deleted records meets ("garbage" makes the scan fail)
NoContent == [live |-> <<>>, deleted |-> "none"]
Contents(path) ==
    {[live |-> [i \in 1..n |-> <<path, i>>], deleted |-> x]
        : n \in 0..MaxLegacyJobs, x \in {"garbage", "none", "records"}}

is_file(path) == disk[path].is_file

raw_read_file(path) ==
    IF disk[path].readable THEN [ok |-> TRUE, bytes |-> disk[path].content]
    ELSE [ok |-> FALSE, bytes |-> NoContent]

LegacyInfo(id) == [job_id |-> id, file_id |-> "", owner_sid |-> "", username |-> "",
                   filename |-> <<"none", 0>>, carved |-> FALSE]

get_legacy_jobs(bytes) == [i \in 1..Len(bytes.live) |-> LegacyInfo(bytes.live[i])]

\* the scanner: a failure, or the records matching the generation's signature
Generation(flag) == IF flag THEN "legacy" ELSE "ese"
carve_bits(bytes, flag) ==
    IF bytes.deleted = "garbage"
    THEN [ok |-> FALSE, merged |-> <<>>, jobs |-> <<>>, files |-> <<>>]
    ELSE IF bytes.deleted = "none"
    THEN [ok |-> TRUE, merged |-> <<>>, jobs |-> <<>>, files |-> <<>>]
    ELSE [ok |-> TRUE,
          merged |-> <<[job_id |-> <<"carved", 1>>, file_id |-> Generation(flag),
                        owner_sid |-> "", username |-> "",
                        filename |-> <<"carved", 1>>, carved |-> TRUE]>>,
          jobs |-> <<[job_id |-> <<"carved", 2>>, file_id |-> Generation(flag),
                      owner_sid |-> ""]>>,
          files |-> <<[file_id |-> Generation(flag), filename |-> <<"carved", 3>>]>>]

-----------------------------------------------------------------------------
(* parse_carve *)

\* faulty variant: the scan's error is unwrapped
parse_carve_unwrap(bytes, flag) ==
    LET results == carve_bits(bytes, flag)
    IN  [kind |-> IF results.ok THEN "Ok" ELSE "Panic", merged |-> results.merged,
         jobs |-> results.jobs, files |-> results.files]

\* background.rs:183-192
parse_carve(bytes, flag) ==
    LET results == carve_bits(bytes, flag)
    IN  IF results.ok
        THEN [kind |-> "Ok", merged |-> results.merged, jobs |-> results.jobs,
              files |-> results.files]
        ELSE [kind |-> "Ok", merged |-> <<>>, jobs |-> <<>>, files |-> <<>>]

-----------------------------------------------------------------------------
(* parse_ese_bits *)

\* faulty variant: an unresolved SID stands in for the name
UsernameOrSid(users, sid) == IF sid \in DOMAIN users THEN users[sid] ELSE sid

\* users.get(sid).unwrap_or(&String::new())
Username(users, sid) == IF sid \in DOMAIN users THEN users[sid] ELSE ""

Merge(job, file, users) ==
    [job_id |-> job.job_id, file_id |-> job.file_id, owner_sid |-> job.owner_sid,
     username |-> Username(users, job.owner_sid), filename |-> file.filename,
     carved |-> FALSE]

\* the inner loop: every file is compared with the job
RECURSIVE FilesLoop(_, _, _, _, _)
FilesLoop(job, files_info, j, users, acc) ==
    IF j > Len(files_info) THEN acc
    ELSE FilesLoop(job, files_info, j + 1, users,
                   IF job.file_id = files_info[j].file_id
                   THEN Append(acc, Merge(job, files_info[j], users))
                   ELSE acc)

\* faulty variant: the inner loop stops at the first file that matches
RECURSIVE FilesLoopFirst(_, _, _, _, _)
FilesLoopFirst(job, files_info, j, users, acc) ==
    IF j > Len(files_info) THEN acc
    ELSE IF job.file_id = files_info[j].file_id
    THEN Append(acc, Merge(job, files_info[j], users))
    ELSE FilesLoopFirst(job, files_info, j + 1, users, acc)

RECURSIVE JobsLoopFirst(_, _, _, _, _)
JobsLoopFirst(jobs_info, files_info, i, users, acc) ==
    IF i > Len(jobs_info) THEN acc
    ELSE JobsLoopFirst(jobs_info, files_info, i + 1, users,
                       FilesLoopFirst(jobs_info[i], files_info, 1, users, acc))

JoinFirstMatch(jobs_info, files_info, users) ==
    JobsLoopFirst(jobs_info, files_info, 1, users, <<>>)

RECURSIVE JobsLoop(_, _, _, _, _)
JobsLoop(jobs_info, files_info, i, users, acc) ==
    IF i > Len(jobs_info) THEN acc
    ELSE JobsLoop(jobs_info, files_info, i + 1, users,
                  FilesLoop(jobs_info[i], files_info, 1, users, acc))

\* background.rs:47-91
Join(jobs_info, files_info, users) == JobsLoop(jobs_info, files_info, 1, users, <<>>)

\* faulty variant: a table that is absent reads as an empty table
TableGetOrDefault(tables, name) == [some |-> TRUE, rows |-> tables[name].rows]

\* bits_tables.get(name)
TableGet(tables, name) == tables[name]

\* background.rs:100: let is_legacy = false;
EseCarveFlag == FALSE

\* background.rs:166: let is_legacy = false;
LegacyCarveFlag == FALSE

\* a call of raw_read_file(path), or of the scanner on the bytes of path
ReadEvent(path) == [op |-> "read", path |-> path, flag |-> FALSE]
ScanEvent(path, flag) == [op |-> "scan", path |-> path, flag |-> flag]

\* faulty variant: the merged records of the scanner join the entries
EseCarveMerged(bits_info, carve_flag, read_result) ==
    LET carved == parse_carve(read_result.bytes, FALSE)
    IN  IF carve_flag /\ read_result.ok
        THEN BitsOk([bits |-> bits_info \o carved.merged, carved_jobs |-> carved.jobs,
                     carved_files |-> carved.files])
        ELSE BitsOk([bits |-> bits_info, carved_jobs |-> <<>>, carved_files |-> <<>>])

\* faulty variant: a failed raw read fails the call
EseCarveFatal(bits_info, carve_flag, read_result) ==
    LET carved == parse_carve(read_result.bytes, EseCarveFlag)
    IN  IF carve_flag /\ ~read_result.ok THEN BitsErr("ReadFile")
        ELSE IF carve_flag
        THEN BitsOk([bits |-> bits_info, carved_jobs |-> carved.jobs,
                     carved_files |-> carved.files])
        ELSE BitsOk([bits |-> bits_info, carved_jobs |-> <<>>, carved_files |-> <<>>])

\* background.rs:93-114
EseCarve(bits_info, carve_flag, read_result) ==
    LET flag == EseCarveFlag
        carved == parse_carve(read_result.bytes, flag)
    IN  IF carve_flag /\ read_result.ok
        THEN BitsOk([bits |-> bits_info, carved_jobs |-> carved.jobs,
                     carved_files |-> carved.files])
        ELSE BitsOk([bits |-> bits_info, carved_jobs |-> <<>>, carved_files |-> <<>>])

\* background.rs:17-115; the raw file is read only when carve is set
parse_ese_bits(ese, users_res, carve_flag, read_result) ==
    LET jobs == TableGet(ese.tables, "Jobs")
        files == TableGet(ese.tables, "Files")
        jobs_info == get_jobs(jobs.rows)
        files_info == get_files(files.rows)
        users == IF users_res.ok THEN users_res.map ELSE <<>>
    IN  IF ~ese.ok THEN BitsErr("ParseEse")
        ELSE IF ~jobs.some THEN BitsErr("MissingJobs")
        ELSE IF ~files.some THEN BitsErr("MissingFiles")
        ELSE EseCarve(Join(jobs_info, files_info, users), carve_flag, read_result)

\* background.rs:99-113: the raw read and the scan parse_ese_bits makes, which
\* it reaches only past the table checks and only when carve is set
EseIo(ese, carve_flag, read_result) ==
    IF ~ese.ok \/ ~TableGet(ese.tables, "Jobs").some \/ ~TableGet(ese.tables, "Files").some
    THEN <<>>
    ELSE IF ~carve_flag THEN <<>>
    ELSE IF read_result.ok THEN <<ReadEvent(EsePath), ScanEvent(EsePath, EseCarveFlag)>>
    ELSE <<ReadEvent(EsePath)>>

-----------------------------------------------------------------------------
(* legacy_bits and parse_legacy_bits *)

\* background.rs:154, 165-168: the raw read and the scan of one source
LegacyIo(path, carve_flag) ==
    IF ~is_file(path) THEN <<>>
    ELSE IF raw_read_file(path).ok /\ carve_flag
    THEN <<ReadEvent(path), ScanEvent(path, LegacyCarveFlag)>>
    ELSE <<ReadEvent(path)>>

\* background.rs:148-174
legacy_bits(path, carve_flag) ==
    LET read_results == raw_read_file(path)
        bits == get_legacy_jobs(read_results.bytes)
        flag == LegacyCarveFlag
        carved == parse_carve(read_results.bytes, flag)
    IN  IF ~read_results.ok THEN BitsErr("ReadFile")
        ELSE IF carve_flag
        THEN BitsOk([bits |-> bits \o carved.merged, carved_jobs |-> carved.jobs,
                     carved_files |-> carved.files])
        ELSE BitsOk([bits |-> bits, carved_jobs |-> <<>>, carved_files |-> <<>>])

\* faulty variant: a source that fails is skipped
SourceSkipFailed(path, carve_flag) ==
    IF ~is_file(path) THEN [skip |-> TRUE, results |-> BitsOk(EmptyBits)]
    ELSE LET r == legacy_bits(path, carve_flag)
         IN  [skip |-> r.kind = "Err", results |-> r]

\* background.rs:129-134, 137-142: one source; `?` passes its error on
Source(path, carve_flag) ==
    IF ~is_file(path) THEN [skip |-> TRUE, results |-> BitsOk(EmptyBits)]
    ELSE [skip |-> FALSE, results |-> legacy_bits(path, carve_flag)]

\* faulty variant: the later source's results come first
AppendResultsFront(w, results) ==
    [bits |-> results.bits \o w.bits,
     carved_jobs |-> results.carved_jobs \o w.carved_jobs,
     carved_files |-> results.carved_files \o w.carved_files]

\* background.rs:131-133, 139-141
AppendResults(w, results) ==
    [bits |-> w.bits \o results.bits,
     carved_jobs |-> w.carved_jobs \o results.carved_jobs,
     carved_files |-> w.carved_files \o results.carved_files]

-----------------------------------------------------------------------------
(* BITS: inputs and actions *)

FileStates(path) ==
    {[is_file |-> FALSE, readable |-> FALSE, content |-> NoContent],
     [is_file |-> TRUE, readable |-> FALSE, content |-> NoContent]}
    \cup {[is_file |-> TRUE, readable |-> TRUE, content |-> c] : c \in Contents(path)}

NoFile == [is_file |-> FALSE, readable |-> FALSE, content |-> NoContent]
NoTables == [Jobs |-> Absent, Files |-> Absent]
EseFailure == [ok |-> FALSE, tables |-> NoTables]
UsersFailure == [ok |-> FALSE, map |-> <<>>]
NoCarve == [kind |-> "None", merged |-> <<>>, jobs |-> <<>>, files |-> <<>>]

EseOutcomes ==
    {EseFailure}
    \cup {[ok |-> TRUE, tables |-> [Jobs |-> j, Files |-> f]]
            : j \in {Absent} \cup {Present(r) : r \in JobRows},
              f \in {Absent} \cup {Present(r) : r \in FileRows}}

UsersOutcomes ==
    {UsersFailure, [ok |-> TRUE, map |-> <<>>],
     [ok |-> TRUE, map |-> [s \in {Sid(1)} |-> "alice"]]}

InitEse ==
    /\ bits_call = "ese"
    /\ ese_results \in EseOutcomes
    /\ users_result \in UsersOutcomes
    /\ carve \in BOOLEAN
    /\ is_legacy = FALSE
    /\ \E f \in FileStates(EsePath) :
          /\ f.is_file
          /\ disk = [p \in Paths |-> IF p = EsePath THEN f ELSE NoFile]

InitLegacy ==
    /\ bits_call = "legacy"
    /\ ese_results = EseFailure
    /\ users_result = UsersFailure
    /\ carve \in BOOLEAN
    /\ is_legacy = FALSE
    /\ \E f0 \in FileStates(Qmgr0), f1 \in FileStates(Qmgr1) :
          disk = [p \in Paths |-> IF p = Qmgr0 THEN f0 ELSE IF p = Qmgr1 THEN f1 ELSE NoFile]

InitCarve ==
    /\ bits_call = "carve"
    /\ ese_results = EseFailure
    /\ users_result = UsersFailure
    /\ carve = FALSE
    /\ is_legacy \in BOOLEAN
    /\ \E c \in Contents(EsePath) :
          disk = [p \in Paths |->
                    IF p = EsePath THEN [is_file |-> TRUE, readable |-> TRUE, content |-> c]
                    ELSE NoFile]

InitBits ==
    /\ InitEse \/ InitLegacy \/ InitCarve
    /\ bits_pc = "start"
    /\ windows_bits = EmptyBits
    /\ bits_result = NoBitsResult
    /\ carve_result = NoCarve
    /\ io_log = <<>>

IdleBits ==
    /\ bits_call = "none"
    /\ ese_results = EseFailure
    /\ users_result = UsersFailure
    /\ carve = FALSE
    /\ is_legacy = FALSE
    /\ disk = [p \in Paths |-> NoFile]
    /\ bits_pc = "idle"
    /\ windows_bits = EmptyBits
    /\ bits_result = NoBitsResult
    /\ carve_result = NoCarve
    /\ io_log = <<>>

bitsInputs == <<bits_call, ese_results, users_result, carve, is_legacy, disk>>

\* parse_ese_bits(bits_path, carve)
EseCall ==
    /\ bits_call = "ese" /\ bits_pc = "start"
    /\ bits_result' = parse_ese_bits(ese_results, users_result, carve,
                                     raw_read_file(EsePath))
    /\ io_log' = io_log \o EseIo(ese_results, carve, raw_read_file(EsePath))
    /\ bits_pc' = "done"
    /\ UNCHANGED <<bitsInputs, windows_bits, carve_result>>
    /\ UNCHANGED <<volVars, gdVars, shimVars>>

\* parse_carve(data, is_legacy), called as test_parse_carve does
CarveCall ==
    /\ bits_call = "carve" /\ bits_pc = "start"
    /\ carve_result' = parse_carve(raw_read_file(EsePath).bytes, is_legacy)
    /\ io_log' = io_log \o <<ScanEvent(EsePath, is_legacy)>>
    /\ bits_pc' = "done"
    /\ UNCHANGED <<bitsInputs, windows_bits, bits_result>>
    /\ UNCHANGED <<volVars, gdVars, shimVars>>

\* one of the two sources of parse_legacy_bits
LegacySource(path, here, next) ==
    /\ bits_call = "legacy" /\ bits_pc = here
    /\ LET s == Source(path, carve)
       IN  IF s.skip
           THEN /\ bits_pc' = next
                /\ UNCHANGED <<windows_bits, bits_result>>
           ELSE IF s.results.kind = "Err"
           THEN /\ bits_pc' = "done"
                /\ bits_result' = BitsErr(s.results.err)
                /\ UNCHANGED windows_bits
           ELSE /\ bits_pc' = next
                /\ windows_bits' = AppendResults(windows_bits, s.results)
                /\ UNCHANGED bits_result
    /\ io_log' = io_log \o LegacyIo(path, carve)
    /\ UNCHANGED <<bitsInputs, carve_result>>
    /\ UNCHANGED <<volVars, gdVars, shimVars>>

\* background.rs:121-134
LegacyFirst == LegacySource(Qmgr0, "start", "second")

\* background.rs:136-142
LegacySecond == LegacySource(Qmgr1, "second", "return")

\* background.rs:144
LegacyReturn ==
    /\ bits_call = "legacy" /\ bits_pc = "return"
    /\ bits_result' = BitsOk(windows_bits)
    /\ bits_pc' = "done"
    /\ UNCHANGED <<bitsInputs, windows_bits, carve_result, io_log>>
    /\ UNCHANGED <<volVars, gdVars, shimVars>>

-----------------------------------------------------------------------------
(* The shimdb ops of the script runtime (artemis-core, runtime/windows/shimdb.rs) *)
(*                                                                           *)
(* A String is a sequence of chars; the parsers grab_shimdb and              *)
(* custom_shimdb_path are collaborators whose outcome is an input.           *)

MaxShims == 2

ShimNames == {"sysmain.sdb", "custom.sdb"}
ShimLists == UNION {[1..n -> ShimNames] : n \in 0..MaxShims}

ParseFailure == [ok |-> FALSE, dbs |-> <<>>]
ParseOutcomes == {ParseFailure} \cup {[ok |-> TRUE, dbs |-> l] : l \in ShimLists}

ShimOk(text) == [kind |-> "Ok", text |-> text, err |-> ""]
ShimErr(e) == [kind |-> "Err", text |-> <<>>, err |-> e]
NoShimResult == [kind |-> "None", text |-> <<>>, err |-> ""]

\* String::new()
EmptyString == <<>>

\* serde_json::to_string of a list: the brackets around its elements
ToJson(dbs) == <<"[">> \o dbs \o <<"]">>

\* let results = serde_json::to_string(&shimdb)?; Ok(results)
Serialize(dbs, serialize_ok) ==
    IF serialize_ok THEN ShimOk(ToJson(dbs)) ELSE ShimErr("Serialize")

NotAsked == [called |-> FALSE, arg |-> <<>>]
Asked(arg) == [called |-> TRUE, arg |-> arg]

\* shimdb.rs:11-25
get_shimdb(parse, serialize_ok) ==
    IF ~parse.ok THEN ShimErr("ExecuteScript")
    ELSE Serialize(parse.dbs, serialize_ok)

\* shimdb.rs:29-51
get_alt_shimdb(drive, parse, serialize_ok) ==
    IF drive = <<>> THEN ShimErr("ExecuteScript")
    ELSE IF ~parse.ok THEN ShimErr("ExecuteScript")
    ELSE Serialize(parse.dbs, serialize_ok)

\* faulty variant: a failed custom path cancels the script
get_custom_shimdb_abort(paths, parse, serialize_ok) ==
    IF ~parse.ok THEN ShimErr("ExecuteScript")
    ELSE Serialize(parse.dbs, serialize_ok)

\* shimdb.rs:55-68
get_custom_shimdb(paths, parse, serialize_ok) ==
    IF ~parse.ok THEN ShimOk(EmptyString)
    ELSE Serialize(parse.dbs, serialize_ok)

Drives == {<<>>, <<"C">>, <<"D", ":">>}
CustomPaths == {<<>>, <<"a", ".", "s", "d", "b">>, <<"a", ".", "t", "x", "t">>}

InitShim ==
    /\ shim_call \in {"shimdb", "alt", "custom"}
    /\ shim_arg \in (IF shim_call = "shimdb" THEN {<<>>}
                     ELSE IF shim_call = "alt" THEN Drives ELSE CustomPaths)
    /\ shim_parse \in ParseOutcomes
    /\ shim_serialize \in BOOLEAN
    /\ shim_pc = "start"
    /\ shim_asked = NotAsked
    /\ shim_result = NoShimResult

IdleShim ==
    /\ shim_call = "none"
    /\ shim_arg = <<>>
    /\ shim_parse = ParseFailure
    /\ shim_serialize = FALSE
    /\ shim_pc = "idle"
    /\ shim_asked = NotAsked
    /\ shim_result = NoShimResult

shimInputs == <<shim_call, shim_arg, shim_parse, shim_serialize>>

\* get_shimdb()
GetShimdb ==
    /\ shim_call = "shimdb" /\ shim_pc = "start"
    /\ shim_asked' = Asked(<<>>)
    /\ shim_result' = get_shimdb(shim_parse, shim_serialize)
    /\ shim_pc' = "done"
    /\ UNCHANGED <<shimInputs, volVars, gdVars, bitsVars>>

\* get_alt_shimdb(drive): the parser gets the first char of the drive
GetAltShimdb ==
    /\ shim_call = "alt" /\ shim_pc = "start"
    /\ shim_asked' = IF shim_arg = <<>> THEN NotAsked ELSE Asked(<<Head(shim_arg)>>)
    /\ shim_result' = get_alt_shimdb(shim_arg, shim_parse, shim_serialize)
    /\ shim_pc' = "done"
    /\ UNCHANGED <<shimInputs, volVars, gdVars, bitsVars>>

\* get_custom_shimdb(paths)
GetCustomShimdb ==
    /\ shim_call = "custom" /\ shim_pc = "start"
    /\ shim_asked' = Asked(shim_arg)
    /\ shim_result' = get_custom_shimdb(shim_arg, shim_parse, shim_serialize)
    /\ shim_pc' = "done"
    /\ UNCHANGED <<shimInputs, volVars, gdVars, bitsVars>>

-----------------------------------------------------------------------------
(* Specifications *)

\* parse_volume
Init ==
    InitVolume /\ overflow_checks \in BOOLEAN /\ IdleDirectories /\ IdleBits /\ IdleShim

Next == PV_Start \/ PV_Record \/ PV_Return

Spec == Init /\ [][Next]_vars

\* get_directories
InitDir ==
    InitDirectories /\ overflow_checks \in BOOLEAN /\ IdleVolume /\ IdleBits /\ IdleShim

NextDir == GD_Call

SpecDir == InitDir /\ [][NextDir]_vars

\* parse_ese_bits, parse_legacy_bits, parse_carve
InitB ==
    InitBits /\ overflow_checks = FALSE /\ IdleVolume /\ IdleDirectories /\ IdleShim

NextBits == EseCall \/ CarveCall \/ LegacyFirst \/ LegacySecond \/ LegacyReturn

SpecBits == InitB /\ [][NextBits]_vars

\* get_shimdb, get_alt_shimdb, get_custom_shimdb
InitS ==
    InitShim /\ overflow_checks = FALSE /\ IdleVolume /\ IdleDirectories /\ IdleBits

NextShim == GetShimdb \/ GetAltShimdb \/ GetCustomShimdb

SpecShim == InitS /\ [][NextShim]_vars

-----------------------------------------------------------------------------
(* Reference reading of the on-disk layout, by index arithmetic on the buffer *)

\* the u16 at byte position q (0-based)
RefU16(d, q) == d[q + 1] + 256 * d[q + 2]

\* n UTF-16 code units starting at byte position q
RefString(d, q, n) == [k \in 1..n |-> RefU16(d, q + 2 * (k - 1))]

\* where directory entry i (0-based) of the table at `start` begins; -1 when
\* an earlier entry does not fit in the buffer
RECURSIVE RefEntryPos(_, _, _)
RefEntryPos(d, start, i) ==
    IF i = 0 THEN start
    ELSE LET q == RefEntryPos(d, start, i - 1)
         IN  IF q < 0 \/ q + 2 > Len(d) THEN -1
             ELSE IF q + 2 + 2 * RefU16(d, q) + 2 > Len(d) THEN -1
             ELSE q + 2 + 2 * RefU16(d, q) + 2

\* the table at `start` holds the strings `dirs`, entry after entry
RefTable(d, start, dirs) ==
    /\ RefEntryPos(d, start, Len(dirs)) >= 0
    /\ \A i \in 1..Len(dirs) :
          LET q == RefEntryPos(d, start, i - 1)
          IN  dirs[i] = RefString(d, q + 2, RefU16(d, q))

\* the u32 at byte position q (0-based)
RefU32(d, q) == [hi |-> RefU16(d, q + 2), lo |-> RefU16(d, q)]

Done == pc = "done"
GdDone == gd_pc = "done"

-----------------------------------------------------------------------------
(* Claims about parse_volume *)

C2_TruncationKeepsRecords ==
    (Done /\ stop = "read") => (result.kind = "Ok" /\ result.volumes = volume_vec)

\* C2 (amended): when a read of a structural field runs past the end of the
\* buffer, parse_volume stops decoding the set and returns the error; the
\* records already collected are discarded, none is returned.
C2_TruncationIsAnError ==
    (Done /\ stop = "read") => (result.kind = "Err" /\ result.volumes = <<>>)

C2_Witness ==
    /\ Done /\ stop = "read" /\ Len(volume_vec) >= 1
    /\ count < number_volumes
    /\ result.kind = "Err"

\* C3: every record parse_volume collects or returns has as many directories
\* as its header's number_directory_strings, for every version.
C3_DirectoryCount ==
    /\ \A i \in 1..Len(volume_vec) :
          volume_vec[i].number_directory_strings = U32Of(Len(volume_vec[i].directories))
    /\ \A i \in 1..Len(result.volumes) :
          result.volumes[i].number_directory_strings
              = U32Of(Len(result.volumes[i].directories))

C3_Witness ==
    /\ Done /\ result.kind = "Ok" /\ Len(result.volumes) = MaxVolumes
    /\ Len(result.volumes[1].directories) = 3
    /\ Len(result.volumes[MaxVolumes].directories) = 1

\* C9: every collected record, whatever its index, has its path equal to the
\* 2 * path_char_count bytes at base + path_offset and its directories equal
\* to the table at base + directory_table_offset, base the record-set start.
C9_OffsetsFromBase ==
    \A i \in 1..Len(volume_vec) :
        LET v == volume_vec[i]
            base == volume_offset
        IN  /\ v.volume_path_offset.hi = 0
            /\ v.volume_number_chars.hi = 0
            /\ base + v.volume_path_offset.lo + 2 * v.volume_number_chars.lo <= Len(data)
            /\ v.volume_path = RefString(data, base + v.volume_path_offset.lo,
                                         v.volume_number_chars.lo)
            /\ v.directory_strings_offset.hi = 0
            /\ RefTable(data, base + v.directory_strings_offset.lo, v.directories)

\* C11: for a supported version the sequential cursor is at
\* base + count * (36 + trailer) whenever the loop is about to read a header,
\* trailer being 60 for version 30 and 68 for versions 23 and 26, and record
\* k has the header fields found there: the path and directory offsets do
\* not move the cursor.
C11_SequentialStride ==
    Supported(version) =>
        LET stride == 36 + (IF version = 30 THEN 60 ELSE 68)
        IN  /\ pc = "loop" => volume_data = volume_offset + count * stride
            /\ \A i \in 1..Len(volume_vec) :
                  LET q == volume_offset + (i - 1) * stride
                  IN  /\ q + 36 <= Len(data)
                      /\ volume_vec[i].volume_path_offset = RefU32(data, q)
                      /\ volume_vec[i].volume_number_chars = RefU32(data, q + 4)
                      /\ volume_vec[i].volume_creation = SubSeq(data, q + 9, q + 16)
                      /\ volume_vec[i].volume_serial = RefU32(data, q + 16)
                      /\ volume_vec[i].directory_strings_offset = RefU32(data, q + 28)
                      /\ volume_vec[i].number_directory_strings = RefU32(data, q + 32)

C11_Witness ==
    /\ Done /\ version = 23 /\ result.kind = "Ok"
    /\ Len(result.volumes) = MaxVolumes
    /\ result.volumes[1].volume_serial # result.volumes[MaxVolumes].volume_serial
    /\ Len(result.volumes[1].volume_path) = 2
    /\ Len(result.volumes[MaxVolumes].directories) = 2

\* C12 (as stated): a record count of zero gives success with no record for
\* every buffer, offset and version.
C12_ZeroCountAlwaysEmpty ==
    (Done /\ number_volumes = 0) => (result.kind = "Ok" /\ result.volumes = <<>>)

\* C12 (amended): with a record count of zero and the record-set offset not
\* beyond the end of the buffer, parse_volume returns success with no record
\* and the remaining buffer at the offset, for every version; with the
\* offset beyond the end of the buffer it returns an error.
C12_ZeroCount ==
    (Done /\ number_volumes = 0) =>
        IF volume_offset <= Len(data)
        THEN result = Success(volume_offset, <<>>)
        ELSE result.kind = "Err"

C12_Witness ==
    /\ Done /\ number_volumes = 0 /\ volume_offset > Len(data)
    /\ result.kind = "Err" /\ ~Supported(version)

\* C21: a success with a version in {23, 26, 30} carries exactly
\* number_volumes records, and its remaining buffer starts at
\* base + number_volumes * (36 + trailer), a position inside the buffer: when
\* the trailer of the last record is not wholly in the buffer there is no
\* success.
C21_AllRecordsOrNone ==
    (Done /\ Supported(version)) =>
        LET after == volume_offset + number_volumes * (HeaderSize + LayoutSize(version))
        IN  /\ result.kind = "Ok" =>
                  /\ Len(result.volumes) = number_volumes
                  /\ result.remaining = after
                  /\ after <= Len(data)
            /\ after > Len(data) => result.kind # "Ok"

C21_Witness ==
    /\ Done /\ version = Version26 /\ number_volumes = MaxVolumes
    /\ volume_offset = PadLen
    /\ result.kind = "Ok" /\ Len(result.volumes) = MaxVolumes
    /\ result.remaining = PadLen + StringsStart(Version26)

\* the first record lies in the buffer: its header, the path its header
\* names and every entry of its directory table, read by index arithmetic
WellFormedFirst ==
    /\ volume_offset + HeaderSize <= Len(data)
    /\ LET base == volume_offset
           po == RefU32(data, base)
           pn == RefU32(data, base + 4)
           do == RefU32(data, base + 28)
           dn == RefU32(data, base + 32)
       IN  /\ po.hi = 0 /\ pn.hi = 0 /\ do.hi = 0 /\ dn.hi = 0
           /\ base + po.lo + 2 * pn.lo <= Len(data)
           /\ base + do.lo <= Len(data)
           /\ RefEntryPos(data, base + do.lo, dn.lo) >= 0

\* C22: with an unsupported version, number_volumes >= 1 and a well-formed
\* first record, parse_volume returns success with exactly that record and
\* the remaining buffer still at the record-set base.
C22_FirstRecordKept ==
    (Done /\ ~Supported(version) /\ number_volumes >= 1 /\ WellFormedFirst) =>
        /\ result.kind = "Ok"
        /\ Len(result.volumes) = 1
        /\ result.volumes[1].volume_serial = RefU32(data, volume_offset + 16)
        /\ result.remaining = volume_offset

\* the buffer d with each of its first k bytes replaced by b
PrefixReplaced(d, k, b) == [i \in 1..Len(d) |-> IF i <= k THEN b ELSE d[i]]

PrefixBytes == {0, 255}

\* C23: a buffer that differs from the decoded one only before the
\* record-set start gives, for the same offset, count and version, the
\* outcome the call returned: same kind, same records, same remaining
\* position.
C23_PrefixIgnored ==
    Done =>
        /\ result = parse_volume(data, volume_offset, number_volumes, version,
                                 overflow_checks)
        /\ \A b \in PrefixBytes :
              result = parse_volume(PrefixReplaced(data, volume_offset, b), volume_offset,
                                    number_volumes, version, overflow_checks)

C23_Witness ==
    /\ Done /\ volume_offset = PadLen /\ result.kind = "Ok"
    /\ \A b \in PrefixBytes : PrefixReplaced(data, volume_offset, b) # data
    /\ Len(result.volumes) = MaxVolumes
    /\ result.volumes[1].volume_path_offset = U32Of(0)
    /\ Len(result.volumes[1].volume_path) = 1
    /\ Len(result.volumes[MaxVolumes].directories) = 2

\* each string of dirs has as many code units as the u16 char_count in front
\* of it says, the first entry being at p and each next one behind the
\* string and terminator actually read
RECURSIVE DirCountsRead(_, _, _, _)
DirCountsRead(d, p, dirs, j) ==
    IF j > Len(dirs) THEN TRUE
    ELSE /\ p + 2 <= Len(d)
         /\ RefU16(d, p) = Len(dirs[j])
         /\ DirCountsRead(d, p + 2 + 2 * Len(dirs[j]) + 2, dirs, j + 1)

\* C19: no character count makes the decoder unwind, every collected path
\* has path_char_count code units (2 * path_char_count bytes were taken) and
\* every collected directory string has the char_count code units announced
\* in front of it.
C19_ExactByteLength ==
    /\ result.kind # "Panic"
    /\ \A i \in 1..Len(volume_vec) :
          /\ U32Of(Len(volume_vec[i].volume_path)) = volume_vec[i].volume_number_chars
          /\ volume_vec[i].directory_strings_offset.hi = 0 =>
                DirCountsRead(data, volume_offset + volume_vec[i].directory_strings_offset.lo,
                              volume_vec[i].directories, 1)

\* C20: the record loop never runs more than number_volumes times and the
\* call, once over, has returned success or an error.
C20_EndsInOutcome ==
    /\ count <= number_volumes
    /\ Len(volume_vec) <= number_volumes
    /\ Done => result.kind \in {"Ok", "Err"}

-----------------------------------------------------------------------------
(* Claims about get_directories *)

\* C10: on success get_directories returns exactly `entries` strings, entry i
\* beginning right after entry i-1 and made of a u16 char_count, char_count
\* code units and a 2-byte terminator, and the returned cursor is just after
\* the last terminator.
C10_ConsecutiveEntries ==
    (GdDone /\ gd_result.kind = "Ok") =>
        /\ gd_offset.hi = 0
        /\ gd_entries = U32Of(Len(gd_result.dirs))
        /\ RefTable(gd_data, gd_offset.lo, gd_result.dirs)
        /\ gd_result.pos = RefEntryPos(gd_data, gd_offset.lo, Len(gd_result.dirs))

-----------------------------------------------------------------------------
(* Claims about the BITS assembler *)

EseDone == bits_call = "ese" /\ bits_pc = "done"
LegacyDone == bits_call = "legacy" /\ bits_pc = "done"
CarveDone == bits_call = "carve" /\ bits_pc = "done"

DecodedJobs == get_jobs(ese_results.tables.Jobs.rows)
DecodedFiles == get_files(ese_results.tables.Files.rows)

MatchingPairs ==
    {pr \in (1..Len(DecodedJobs)) \X (1..Len(DecodedFiles)) :
        DecodedJobs[pr[1]].file_id = DecodedFiles[pr[2]].file_id}

\* the entries made from job i and file j
EntriesOf(i, j) ==
    {k \in 1..Len(bits_result.bits) :
        /\ bits_result.bits[k].job_id = DecodedJobs[i].job_id
        /\ bits_result.bits[k].filename = DecodedFiles[j].filename}

\* C4: parse_ese_bits produces exactly one entry for each decoded job/file
\* pair with equal file_id and none for any other pair, so the number of
\* entries is the number of such pairs, also when a file_id is shared by
\* several jobs or several files.
C4_OneEntryPerPair ==
    (EseDone /\ bits_result.kind = "Ok") =>
        /\ \A i \in 1..Len(DecodedJobs), j \in 1..Len(DecodedFiles) :
              Cardinality(EntriesOf(i, j)) =
                  IF <<i, j>> \in MatchingPairs THEN 1 ELSE 0
        /\ Len(bits_result.bits) = Cardinality(MatchingPairs)

C4_Witness ==
    /\ EseDone /\ bits_result.kind = "Ok"
    /\ Len(DecodedJobs) = MaxJobs /\ Len(DecodedFiles) = MaxFiles
    /\ DecodedFiles[1].file_id = DecodedFiles[2].file_id
    /\ DecodedJobs[1].file_id = DecodedFiles[1].file_id
    /\ DecodedJobs[2].file_id # DecodedFiles[1].file_id
    /\ Len(bits_result.bits) = 2

C6_CarveNeverFails ==
    CarveDone =>
        /\ carve_result.kind = "Ok"
        /\ ~carve_bits(disk[EsePath].content, is_legacy).ok =>
              /\ carve_result.merged = <<>>
              /\ carve_result.jobs = <<>>
              /\ carve_result.files = <<>>

C6_Witness ==
    /\ CarveDone /\ disk[EsePath].content.deleted = "garbage"
    /\ carve_result = [kind |-> "Ok", merged |-> <<>>, jobs |-> <<>>, files |-> <<>>]

Unreadable(p) == disk[p].is_file /\ ~disk[p].readable

C8_CarveLeavesEntries ==
    (EseDone /\ bits_result.kind = "Ok") =>
        LET plain == parse_ese_bits(ese_results, users_result, FALSE,
                                    raw_read_file(EsePath))
            scan == carve_bits(disk[EsePath].content, FALSE)
            scanned == carve /\ disk[EsePath].readable /\ scan.ok
        IN  /\ bits_result.bits = plain.bits
            /\ \A k \in 1..Len(bits_result.bits) : ~bits_result.bits[k].carved
            /\ bits_result.carved_jobs = IF scanned THEN scan.jobs ELSE <<>>
            /\ bits_result.carved_files = IF scanned THEN scan.files ELSE <<>>

C8_Witness ==
    /\ EseDone /\ bits_result.kind = "Ok" /\ carve
    /\ disk[EsePath].readable /\ disk[EsePath].content.deleted = "records"
    /\ Len(bits_result.bits) >= 1
    /\ Len(bits_result.carved_jobs) = 1 /\ Len(bits_result.carved_files) = 1

\* C14: every entry of parse_ese_bits has as username the name the user
\* lookup resolved for the job's owner_sid, or the empty string when the SID
\* is not resolved; when the lookup as a whole fails the call is no error for
\* that and every username is empty.
C14_UsernameResolved ==
    EseDone =>
        /\ bits_result.kind = "Err" => bits_result.err \in {"ParseEse", "MissingJobs", "MissingFiles"}
        /\ \A k \in 1..Len(bits_result.bits) :
              LET entry == bits_result.bits[k]
              IN  entry.username =
                    IF users_result.ok /\ entry.owner_sid \in DOMAIN users_result.map
                    THEN users_result.map[entry.owner_sid]
                    ELSE ""
        /\ (bits_result.kind = "Ok" /\ ~users_result.ok) =>
              /\ Len(bits_result.bits) = Cardinality(MatchingPairs)
              /\ \A k \in 1..Len(bits_result.bits) : bits_result.bits[k].username = ""

C14_Witness ==
    /\ EseDone /\ bits_result.kind = "Ok" /\ users_result.ok
    /\ \E k \in 1..Len(bits_result.bits) :
          bits_result.bits[k].owner_sid = Sid(1) /\ bits_result.bits[k].username = "alice"
    /\ \E k \in 1..Len(bits_result.bits) :
          bits_result.bits[k].owner_sid = Sid(2) /\ bits_result.bits[k].username = ""

\* what one source of parse_legacy_bits contributes
SourceResults(p) == IF disk[p].is_file THEN legacy_bits(p, carve) ELSE BitsOk(EmptyBits)

\* the positions of the log at which the file p is read or scanned
EventsOf(p) == {k \in 1..Len(io_log) : io_log[k].path = p}

\* C16: parse_legacy_bits looks at qmgr0.dat and then at qmgr1.dat and at
\* nothing else; a source that is not a file is neither read nor an error;
\* the first source is finished before the second is touched; the entries,
\* carved jobs and carved files of the second follow those of the first; and
\* with neither file present the call succeeds with three empty lists.
C16_TwoSourcesInOrder ==
    bits_call = "legacy" =>
        LET first == SourceResults(Qmgr0)
            second == SourceResults(Qmgr1)
        IN  /\ \A k \in 1..Len(io_log) : io_log[k].path \in {Qmgr0, Qmgr1}
            /\ \A p \in {Qmgr0, Qmgr1} : ~disk[p].is_file => EventsOf(p) = {}
            /\ \A a \in EventsOf(Qmgr0), b \in EventsOf(Qmgr1) : a < b
            /\ bits_pc = "second" =>
                  /\ BitsOk(windows_bits) = first
                  /\ EventsOf(Qmgr1) = {}
                  /\ disk[Qmgr0].is_file => EventsOf(Qmgr0) # {}
            /\ (LegacyDone /\ bits_result.kind = "Ok") =>
                  /\ bits_result.bits = first.bits \o second.bits
                  /\ bits_result.carved_jobs = first.carved_jobs \o second.carved_jobs
                  /\ bits_result.carved_files = first.carved_files \o second.carved_files
            /\ (LegacyDone /\ bits_result.kind = "Err") =>
                  \E p \in {Qmgr0, Qmgr1} : disk[p].is_file /\ bits_result = SourceResults(p)
            /\ (LegacyDone /\ ~disk[Qmgr0].is_file /\ ~disk[Qmgr1].is_file) =>
                  bits_result = BitsOk(EmptyBits)

C16_Witness ==
    /\ LegacyDone /\ bits_result.kind = "Ok" /\ carve
    /\ \A p \in {Qmgr0, Qmgr1} :
          /\ disk[p].readable
          /\ Len(disk[p].content.live) = MaxLegacyJobs
          /\ disk[p].content.deleted = "records"
    /\ Len(bits_result.bits) = 2 * (MaxLegacyJobs + 1)
    /\ bits_result.bits[1].job_id = <<Qmgr0, 1>>
    /\ bits_result.bits[MaxLegacyJobs + 2].job_id = <<Qmgr1, 1>>

\* C17 (as stated): every scan made for parse_legacy_bits is handed
\* is_legacy = true and every scan made for parse_ese_bits is_legacy = false,
\* on the bytes of the file being decoded.
C17_FlagNamesGeneration ==
    \A k \in 1..Len(io_log) :
        io_log[k].op = "scan" =>
            /\ bits_call = "legacy" =>
                  (io_log[k].flag = TRUE /\ io_log[k].path \in {Qmgr0, Qmgr1})
            /\ bits_call = "ese" =>
                  (io_log[k].flag = FALSE /\ io_log[k].path = EsePath)

\* C18: once parse_ese_bits has its two tables, a raw read that fails under
\* carve = true leaves the call a success with the joined entries and two
\* empty carved lists, nothing being scanned; and under carve = false the
\* file is neither read nor scanned and both carved lists are empty.
C18_CarveReadFailure ==
    (EseDone /\ ese_results.ok /\ ese_results.tables.Jobs.some
             /\ ese_results.tables.Files.some) =>
        LET users == IF users_result.ok THEN users_result.map ELSE <<>>
            joined == BitsOk([bits |-> Join(DecodedJobs, DecodedFiles, users),
                              carved_jobs |-> <<>>, carved_files |-> <<>>])
        IN  /\ (carve /\ ~disk[EsePath].readable) =>
                  /\ bits_result = joined
                  /\ io_log = <<ReadEvent(EsePath)>>
            /\ ~carve =>
                  /\ bits_result = joined
                  /\ io_log = <<>>

C18_Witness ==
    /\ EseDone /\ carve /\ ~disk[EsePath].readable
    /\ bits_result.kind = "Ok" /\ Len(bits_result.bits) = MaxJobs
    /\ bits_result.carved_jobs = <<>> /\ bits_result.carved_files = <<>>
    /\ io_log = <<ReadEvent(EsePath)>>

-----------------------------------------------------------------------------
(* Claims about the shimdb ops *)

ShimDone == shim_pc = "done"

\* C15: when custom_shimdb_path fails, get_custom_shimdb returns success
\* carrying the empty string, which no serialized result equals; when
\* grab_shimdb fails, get_shimdb and get_alt_shimdb return the ExecuteScript
\* error.
C15_CustomNeverAborts ==
    ShimDone =>
        /\ (shim_call = "custom" /\ ~shim_parse.ok) =>
              (shim_asked.called /\ shim_result = ShimOk(<<>>))
        /\ (shim_call = "custom" /\ shim_parse.ok /\ shim_result.kind = "Ok") =>
              shim_result.text # <<>>
        /\ (shim_call \in {"shimdb", "alt"} /\ ~shim_parse.ok) =>
              (shim_result.kind = "Err" /\ shim_result.err = "ExecuteScript")

C15_Witness ==
    /\ ShimDone /\ shim_call = "custom" /\ ~shim_parse.ok /\ shim_asked.called
    /\ shim_arg # <<>> /\ shim_result.kind = "Ok" /\ shim_result.text = <<>>

====
